---- MODULE Spec2Model ----
(***************************************************************************)
(* A model of fcbb-tools.                                                  *)
(*                                                                         *)
(*   auto-hapimpute.py  submit / checkpoint / check (Pipeline A)           *)
(*   opensnp-scraper.py read / download_file / download (Pipeline B)       *)
(*                                                                         *)
(* A behaviour is a session with one of the two scripts (tool), which may  *)
(* be run several times over the same disk.  Strings are sequences of      *)
(* tokens: the separators '/', '.', '?' and the word '23andme' are tokens  *)
(* of their own, so that split and the substring test are computed.        *)
(***************************************************************************)
EXTENDS Naturals, Sequences, FiniteSets, TLC

(* ------------------------------ bounds -------------------------------- *)

\* the most entries os.listdir returns for the input directory
MaxFiles == 3

\* the most times the script is run in one session
MaxRuns == 2

(* --------------------------- strings, paths --------------------------- *)

Range(s) == {s[i] : i \in DOMAIN s}

\* Python: sub in s, for a sub that is one token
Contains(s, tok) == tok \in Range(s)

\* the index of the last occurrence of tok in s, 0 when there is none
LastIndexOf(s, tok) ==
    IF Contains(s, tok) THEN CHOOSE i \in DOMAIN s :
                                /\ s[i] = tok
                                /\ \A j \in DOMAIN s : s[j] = tok => j <= i
                        ELSE 0

\* Python: s.split(sep)[-1]
SplitLast(s, sep) == SubSeq(s, LastIndexOf(s, sep) + 1, Len(s))

\* os.path.join(a, b) for a relative b and an a without a trailing separator
PathJoin(a, b) == a \o <<"/">> \o b

(* ------------------------- dict (insertion ordered) -------------------- *)

\* a Python dict is a sequence of entries [k, v] with distinct keys, in
\* insertion order
Keys(d) == {d[i].k : i \in DOMAIN d}

KeySeq(d) == [i \in DOMAIN d |-> d[i].k]

Values(d) == {d[i].v : i \in DOMAIN d}

\* d[k]
DictGet(d, k) == d[CHOOSE i \in DOMAIN d : d[i].k = k].v

\* d[k] = v
DictSet(d, k, v) ==
    IF k \in Keys(d)
    THEN [i \in DOMAIN d |-> IF d[i].k = k THEN [k |-> k, v |-> v] ELSE d[i]]
    ELSE Append(d, [k |-> k, v |-> v])

(* ------------------------------- pickle -------------------------------- *)

\* the opcodes pickle.dump writes for the entries of a dict of strings
RECURSIVE PickleItems(_)
PickleItems(d) ==
    IF d = <<>> THEN <<>>
    ELSE <<[op |-> "UNICODE", s |-> Head(d).k], [op |-> "UNICODE", s |-> Head(d).v]>>
         \o PickleItems(Tail(d))

\* pickle.dump(ids, f): the opcode stream of a dict of strings
PickleDump(d) ==
    <<[op |-> "EMPTY_DICT"]>>
    \o (IF d = <<>> THEN <<>>
        ELSE <<[op |-> "MARK"]>> \o PickleItems(d) \o <<[op |-> "SETITEMS"]>>)
    \o <<[op |-> "STOP"]>>

\* the index of the topmost mark of the unpickler's stack
TopMark(stack) ==
    CHOOSE i \in DOMAIN stack :
        /\ stack[i].t = "mark"
        /\ \A j \in DOMAIN stack : stack[j].t = "mark" => j <= i

\* SetItems with key and value taken in the wrong order
RECURSIVE SetItemsSwapped(_, _)
SetItemsSwapped(d, items) ==
    IF Len(items) < 2 THEN d
    ELSE SetItemsSwapped(DictSet(d, items[2].s, items[1].s), SubSeq(items, 3, Len(items)))

\* SETITEMS: dict[k] = v for the pairs above the mark, in order
RECURSIVE SetItems(_, _)
SetItems(d, items) ==
    IF Len(items) < 2 THEN d
    ELSE SetItems(DictSet(d, items[1].s, items[2].s), SubSeq(items, 3, Len(items)))

\* the unpickler: a stack machine over the opcode stream
RECURSIVE Unpickle(_, _, _)
Unpickle(toks, i, stack) ==
    IF i > Len(toks) THEN <<>>
    ELSE CASE toks[i].op = "EMPTY_DICT" ->
                Unpickle(toks, i + 1, Append(stack, [t |-> "dict", d |-> <<>>]))
           [] toks[i].op = "MARK" ->
                Unpickle(toks, i + 1, Append(stack, [t |-> "mark"]))
           [] toks[i].op = "UNICODE" ->
                Unpickle(toks, i + 1, Append(stack, [t |-> "str", s |-> toks[i].s]))
           [] toks[i].op = "SETITEMS" ->
                LET m == TopMark(stack)
                    items == SubSeq(stack, m + 1, Len(stack))
                    below == SubSeq(stack, 1, m - 2)
                    dict == stack[m - 1].d
                IN Unpickle(toks, i + 1,
                            Append(below, [t |-> "dict", d |-> SetItems(dict, items)]))
           [] toks[i].op = "STOP" -> stack[Len(stack)].d

\* pickle.load(f)
PickleLoad(toks) == Unpickle(toks, 1, <<>>)

(* ------------------- Pipeline A: auto-hapimpute.py --------------------- *)

VARIABLES
    tool,        \* the script this session runs: "hapimpute" or "scraper"
    runs,        \* how many times the script was started
    pc,          \* where the running process is; "idle" before the first run
    resume,      \* args['f']
    inputDir,    \* args['i'][0]
    listing,     \* os.listdir(input_dir)
    paths,       \* the list submit is given
    n,           \* submit: the position of its loop in paths
    jobids,      \* submit: jobids, main: ids, check: jobids
    complete,    \* check: complete
    error,       \* check: error
    idx,         \* check: the position of `for id in jobids`
    lastId,      \* check: the local `id`, <<>> while it is unbound
    disk,        \* the file ids.pickle beside the input directory
    destExists,  \* os.path.exists(dest)
    destFiles,   \* the names of the files in dest
    svcNext,     \* the remote service: the number of the next job it assigns
    \* what happened in the current run (history)
    disk0,       \* ids.pickle as the run found it
    uploaded,    \* the uploads the service received: [id, path, got]
    seen,        \* the status pages check was shown: <<id, page>>
    writes,      \* the artifacts check wrote: [id, name]
    reported,    \* the 'Downloaded N of M - id' messages
    passPending, \* the ids not in complete when the pass began
    passQueried, \* the ids whose status the pass asked for
    saved,       \* the run has written ids.pickle
    napped,      \* check: the seconds slept since the last status query
    lastSaved    \* the mapping last given to pickle.dump, in any run

varsA == <<tool, runs, pc, resume, inputDir, listing, paths, n, jobids, complete,
           error, idx, lastId, disk, destExists, destFiles, svcNext, disk0,
           uploaded, seen, writes, reported, passPending, passQueried, saved,
           napped, lastSaved>>

\* Pipeline B (opensnp-scraper.py), whose steps follow the steps of Pipeline A
VARIABLES
    bpc,          \* where the running scraper process is; "idle" before the first run
    runsB,        \* how many times the script was started
    manifestFile, \* the file scrape_<pheno>.pickle of the working directory
    fsDirs,       \* the directories under the download path
    fsFiles,      \* the files under the download path
    nproc,        \* n_processes
    tasks,        \* download: tmp, the list of (url, destination)
    taskState,    \* the pool: each task "todo", "fetching" or "done"
    results,      \* download: i, the results imap_unordered has yielded
    progressLog,  \* the '..Downloaded i of n' messages: <<i, n>>
    \* what happened in the current run (history)
    fetches,      \* the requests.get calls of download_file
    fileWrites,   \* the files download_file opened for writing
    dirsMade,     \* the directories download created
    wrote,        \* the tasks whose worker wrote the destination
    afterComplete \* the run before this one was a download that ended normally

varsB == <<bpc, runsB, manifestFile, fsDirs, fsFiles, nproc, tasks, taskState, results,
           progressLog, fetches, fileWrites, dirsMade, wrote, afterComplete>>

\* opensnp-scraper.py, the scrape stage
VARIABLES
    spc,          \* where scrape is
    sproc,        \* -n: the number of pool processes
    phenoPage,    \* what the server answers for the page of the phenotype
    users,        \* get_users: dict from variant to the list of its user ids
    userPages,    \* what the server answers for the page of each user
    users_rev,    \* get_files: the (user, variant) pairs given to the pool
    gfState,      \* per pair: "todo", "running" or "done"
    gfResult,     \* per pair: what get_file gave, in the place of the pair
    order,        \* the pairs in the order in which their get_file ended
    sfiles,       \* scrape: files, the list pool.map returned
    errFile       \* err_<pheno>.pickle

varsS == <<spc, sproc, phenoPage, users, userPages, users_rev, gfState, gfResult,
           order, sfiles, errFile>>

\* opensnp-scraper.py, the validation
VARIABLES
    vpc,          \* where valid_23andme is
    tree,         \* the files under the download path: path -> content
    walk,         \* os.walk: the (directory, name) pairs in the order met
    vidx,         \* the position of the loops in walk
    err_count,    \* valid_23andme: err_count
    vout          \* what valid_23andme printed

varsV == <<vpc, tree, walk, vidx, err_count, vout>>

vars == <<varsA, varsB, varsS, varsV>>

\* entries of the input directory
FileNames == { <<"a", ".", "23andme", ".", "txt">>,
               <<"b", ".", "23andme", ".", "txt">>,
               <<"notes", ".", "txt">> }

\* values of -i
InputDirs == { <<"data", "/", "raw">>, <<"data", "/", "23andme">> }

\* the listings of a directory of at most MaxFiles entries, in any order
Listings ==
    UNION { { s \in [1..k -> FileNames] : \A i, j \in 1..k : s[i] = s[j] => i = j }
            : k \in 0..MaxFiles }

\* what the status page shows for a job: the outlink element and the status text
Pages == { [displayed |-> TRUE,  status |-> "DONE"],
           [displayed |-> FALSE, status |-> "ERROR"],
           [displayed |-> FALSE, status |-> "RUNNING"] }

NoFile == [exists |-> FALSE, data |-> <<>>]

Stopped == {"done", "exit_error", "raised", "killed"}

\* the job id the service shows for its k-th job
JobIdText(k) == <<ToString(k)>>

\* line 57: the filter of submit, on the path it was given
IsExpectedFormat(f) == Contains(f, "23andme")

\* line 66: f.split('/')[-1]
SourceName(f) == SplitLast(f, "/")

\* UseSaved with the flag ignored
UseSavedNever == FALSE

\* line 143: if args['f']
UseSaved == resume

\* IsDisplayed that takes every page without an error for a finished job
IsDisplayedUnlessError(page) == page.status # "ERROR"

\* line 110: download.is_displayed()
IsDisplayed(page) == page.displayed

\* line 116: driver.find_element_by_id('status').text == 'ERROR'
StatusIsError(page) == page.status = "ERROR"

\* line 99: for i in tqdm(range(300)): time.sleep(1)
SleepSeconds == 300

\* the ids check has not yet put in complete, in the order of jobids
RECURSIVE PendingOf(_, _)
PendingOf(ids, done) ==
    IF ids = <<>> THEN <<>>
    ELSE (IF Head(ids) \in done THEN <<>> ELSE <<Head(ids)>>) \o PendingOf(Tail(ids), done)

InitA ==
    /\ runs = 0
    /\ pc = "idle"
    /\ resume = FALSE
    /\ inputDir \in InputDirs
    /\ listing \in Listings
    /\ paths = <<>>
    /\ n = 1
    /\ jobids = <<>>
    /\ complete = <<>>
    /\ error = <<>>
    /\ idx = 1
    /\ lastId = <<>>
    /\ disk = NoFile
    /\ destExists = FALSE
    /\ destFiles = {}
    /\ svcNext = 1
    /\ disk0 = NoFile
    /\ uploaded = <<>>
    /\ seen = {}
    /\ writes = <<>>
    /\ reported = <<>>
    /\ passPending = <<>>
    /\ passQueried = <<>>
    /\ saved = FALSE
    /\ napped = 0
    /\ lastSaved = <<>>

\* what a new process starts from: nothing of the last one but the disk and the service
FreshProcess ==
    /\ paths' = <<>>
    /\ n' = 1
    /\ jobids' = <<>>
    /\ complete' = <<>>
    /\ error' = <<>>
    /\ idx' = 1
    /\ lastId' = <<>>
    /\ seen' = {}
    /\ writes' = <<>>
    /\ reported' = <<>>
    /\ passPending' = <<>>
    /\ passQueried' = <<>>

\* lines 128-141: the script is started, with or without -f
Launch(f) ==
    /\ tool = "hapimpute"
    /\ pc \in {"idle"} \cup Stopped
    /\ runs < MaxRuns
    /\ runs' = runs + 1
    /\ resume' = f
    /\ pc' = "main"
    /\ disk0' = disk
    /\ uploaded' = <<>>
    /\ saved' = FALSE
    /\ FreshProcess
    /\ UNCHANGED <<tool, inputDir, listing, disk, destExists, destFiles, svcNext, lastSaved>>
    /\ napped' = 0
    /\ UNCHANGED <<varsB, varsS, varsV>>

\* the process is terminated from outside; what it held in memory is gone
Interrupt ==
    /\ tool = "hapimpute"
    /\ pc \notin {"idle"} \cup Stopped
    /\ pc' = "killed"
    /\ paths' = <<>>
    /\ n' = 1
    /\ jobids' = <<>>
    /\ complete' = <<>>
    /\ error' = <<>>
    /\ idx' = 1
    /\ lastId' = <<>>
    /\ passPending' = <<>>
    /\ passQueried' = <<>>
    /\ UNCHANGED <<tool, runs, resume, inputDir, listing, disk, destExists, destFiles,
                   svcNext, disk0, uploaded, seen, writes, reported, saved, lastSaved>>
    /\ napped' = 0
    /\ UNCHANGED <<varsB, varsS, varsV>>

\* lines 143-146: -f and no ids.pickle
MainMissing ==
    /\ pc = "main"
    /\ UseSaved
    /\ ~disk.exists
    /\ pc' = "exit_error"
    /\ UNCHANGED <<tool, runs, resume, inputDir, listing, paths, n, jobids, complete,
                   error, idx, lastId, disk, destExists, destFiles, svcNext, disk0,
                   uploaded, seen, writes, reported, passPending, passQueried, saved, lastSaved>>
    /\ UNCHANGED napped
    /\ UNCHANGED <<varsB, varsS, varsV>>

\* lines 143-148: -f and ids.pickle is there
MainLoad ==
    /\ pc = "main"
    /\ UseSaved
    /\ disk.exists
    /\ jobids' = PickleLoad(disk.data)
    /\ pc' = "check"
    /\ UNCHANGED <<tool, runs, resume, inputDir, listing, paths, n, complete,
                   error, idx, lastId, disk, destExists, destFiles, svcNext, disk0,
                   uploaded, seen, writes, reported, passPending, passQueried, saved, lastSaved>>
    /\ UNCHANGED napped
    /\ UNCHANGED <<varsB, varsS, varsV>>

\* lines 149-151, 53: the paths of the input directory, submit is entered
MainList ==
    /\ pc = "main"
    /\ ~UseSaved
    /\ paths' = [i \in DOMAIN listing |-> PathJoin(inputDir, listing[i])]
    /\ n' = 1
    /\ jobids' = <<>>
    /\ pc' = "submit"
    /\ UNCHANGED <<tool, runs, resume, inputDir, listing, complete,
                   error, idx, lastId, disk, destExists, destFiles, svcNext, disk0,
                   uploaded, seen, writes, reported, passPending, passQueried, saved, lastSaved>>
    /\ UNCHANGED napped
    /\ UNCHANGED <<varsB, varsS, varsV>>

\* lines 56-57: a path the filter rejects
SubmitSkip ==
    /\ pc = "submit"
    /\ n <= Len(paths)
    /\ ~IsExpectedFormat(paths[n])
    /\ n' = n + 1
    /\ UNCHANGED <<tool, runs, pc, resume, inputDir, listing, paths, jobids, complete,
                   error, idx, lastId, disk, destExists, destFiles, svcNext, disk0,
                   uploaded, seen, writes, reported, passPending, passQueried, saved, lastSaved>>
    /\ UNCHANGED napped
    /\ UNCHANGED <<varsB, varsS, varsV>>

\* SubmitUpload that also writes the checkpoint after every upload
SubmitUploadCheckpointing ==
    /\ pc = "submit"
    /\ n <= Len(paths)
    /\ Contains(paths[n], "23andme")
    /\ jobids' = DictSet(jobids, JobIdText(svcNext), SplitLast(paths[n], "/"))
    /\ uploaded' = Append(uploaded, [id |-> JobIdText(svcNext), path |-> paths[n], got |-> TRUE])
    /\ svcNext' = svcNext + 1
    /\ n' = n + 1
    /\ disk' = [exists |-> TRUE, data |-> PickleDump(jobids')]
    /\ UNCHANGED <<tool, runs, pc, resume, inputDir, listing, paths, complete,
                   error, idx, lastId, destExists, destFiles, disk0,
                   seen, writes, reported, passPending, passQueried, saved, lastSaved>>
    /\ UNCHANGED napped
    /\ UNCHANGED <<varsB, varsS, varsV>>

\* lines 58-67: the file is uploaded and the job id read off the page
SubmitUpload ==
    /\ pc = "submit"
    /\ n <= Len(paths)
    /\ IsExpectedFormat(paths[n])
    /\ jobids' = DictSet(jobids, JobIdText(svcNext), SourceName(paths[n]))
    /\ uploaded' = Append(uploaded, [id |-> JobIdText(svcNext), path |-> paths[n], got |-> TRUE])
    /\ svcNext' = svcNext + 1
    /\ n' = n + 1
    /\ UNCHANGED <<tool, runs, pc, resume, inputDir, listing, paths, complete,
                   error, idx, lastId, disk, destExists, destFiles, disk0,
                   seen, writes, reported, passPending, passQueried, saved, lastSaved>>
    /\ UNCHANGED napped
    /\ UNCHANGED <<varsB, varsS, varsV>>

\* lines 60-65: a page element is absent and find_element raises; sent says
\* whether that was after the click on Submit (the element 'jobid')
SubmitFail(sent) ==
    /\ pc = "submit"
    /\ n <= Len(paths)
    /\ IsExpectedFormat(paths[n])
    /\ pc' = "raised"
    /\ IF sent
       THEN /\ uploaded' = Append(uploaded, [id |-> JobIdText(svcNext), path |-> paths[n], got |-> FALSE])
            /\ svcNext' = svcNext + 1
       ELSE UNCHANGED <<uploaded, svcNext>>
    /\ UNCHANGED <<tool, runs, resume, inputDir, listing, paths, n, jobids, complete,
                   error, idx, lastId, disk, destExists, destFiles, disk0,
                   seen, writes, reported, passPending, passQueried, saved, lastSaved>>
    /\ UNCHANGED napped
    /\ UNCHANGED <<varsB, varsS, varsV>>

\* line 69: submit returns
SubmitReturn ==
    /\ pc = "submit"
    /\ n > Len(paths)
    /\ pc' = "save"
    /\ UNCHANGED <<tool, runs, resume, inputDir, listing, paths, n, jobids, complete,
                   error, idx, lastId, disk, destExists, destFiles, svcNext, disk0,
                   uploaded, seen, writes, reported, passPending, passQueried, saved, lastSaved>>
    /\ UNCHANGED napped
    /\ UNCHANGED <<varsB, varsS, varsV>>

\* lines 153-156: the ids are saved
MainSave ==
    /\ pc = "save"
    /\ disk' = [exists |-> TRUE, data |-> PickleDump(jobids)]
    /\ lastSaved' = jobids
    /\ saved' = TRUE
    /\ pc' = "check"
    /\ UNCHANGED <<tool, runs, resume, inputDir, listing, paths, n, jobids, complete,
                   error, idx, lastId, destExists, destFiles, svcNext, disk0,
                   uploaded, seen, writes, reported, passPending, passQueried>>
    /\ UNCHANGED napped
    /\ UNCHANGED <<varsB, varsS, varsV>>

\* lines 90-94: check is entered
CheckEnter ==
    /\ pc = "check"
    /\ complete' = <<>>
    /\ error' = <<>>
    /\ destExists' = TRUE
    /\ pc' = "while"
    /\ UNCHANGED <<tool, runs, resume, inputDir, listing, paths, n, jobids,
                   idx, lastId, disk, destFiles, svcNext, disk0,
                   uploaded, seen, writes, reported, passPending, passQueried, saved, lastSaved>>
    /\ napped' = 0
    /\ UNCHANGED <<varsB, varsS, varsV>>

\* a pass that begins without the sleep of lines 98-99
CheckPassBeginNoSleep ==
    /\ pc = "while"
    /\ Len(jobids) > Len(complete)
    /\ idx' = 1
    /\ passPending' = PendingOf(KeySeq(jobids), Range(complete))
    /\ passQueried' = <<>>
    /\ pc' = "for"
    /\ UNCHANGED <<tool, runs, resume, inputDir, listing, paths, n, jobids, complete,
                   error, lastId, disk, destExists, destFiles, svcNext, disk0,
                   uploaded, seen, writes, reported, saved, lastSaved>>
    /\ UNCHANGED napped
    /\ UNCHANGED <<varsB, varsS, varsV>>

\* lines 97-100: jobs are left: the five minutes of sleep, then a pass begins
CheckPassBegin ==
    /\ pc = "while"
    /\ Len(jobids) > Len(complete)
    /\ idx' = 1
    /\ passPending' = PendingOf(KeySeq(jobids), Range(complete))
    /\ passQueried' = <<>>
    /\ pc' = "for"
    /\ UNCHANGED <<tool, runs, resume, inputDir, listing, paths, n, jobids, complete,
                   error, lastId, disk, destExists, destFiles, svcNext, disk0,
                   uploaded, seen, writes, reported, saved, lastSaved>>
    /\ napped' = SleepSeconds
    /\ UNCHANGED <<varsB, varsS, varsV>>

\* line 97: no job is left, the loop ends
CheckLoopExit ==
    /\ pc = "while"
    /\ ~(Len(jobids) > Len(complete))
    /\ pc' = "final"
    /\ UNCHANGED <<tool, runs, resume, inputDir, listing, paths, n, jobids, complete,
                   error, idx, lastId, disk, destExists, destFiles, svcNext, disk0,
                   uploaded, seen, writes, reported, passPending, passQueried, saved, lastSaved>>
    /\ UNCHANGED napped
    /\ UNCHANGED <<varsB, varsS, varsV>>

\* lines 100-101: an id that is in complete
CheckSkip ==
    /\ pc = "for"
    /\ idx <= Len(jobids)
    /\ jobids[idx].k \in Range(complete)
    /\ lastId' = jobids[idx].k
    /\ idx' = idx + 1
    /\ UNCHANGED <<tool, runs, pc, resume, inputDir, listing, paths, n, jobids, complete,
                   error, disk, destExists, destFiles, svcNext, disk0,
                   uploaded, seen, writes, reported, passPending, passQueried, saved, lastSaved>>
    /\ UNCHANGED napped
    /\ UNCHANGED <<varsB, varsS, varsV>>

\* a status query without the test of line 101
StatusQueryAny(page) ==
    /\ pc = "for"
    /\ idx <= Len(jobids)
    /\ lastId' = jobids[idx].k
    /\ seen' = seen \cup {<<jobids[idx].k, page>>}
    /\ passQueried' = Append(passQueried, jobids[idx].k)

\* lines 102-109: the status of jobids[idx] is asked for and page comes back
StatusQuery(page) ==
    /\ pc = "for"
    /\ idx <= Len(jobids)
    /\ jobids[idx].k \notin Range(complete)
    /\ lastId' = jobids[idx].k
    /\ seen' = seen \cup {<<jobids[idx].k, page>>}
    /\ passQueried' = Append(passQueried, jobids[idx].k)

\* lines 110-115, 122: the link is displayed: the message, the artifact, complete
CheckDownload ==
    \E page \in Pages :
        /\ StatusQuery(page)
        /\ IsDisplayed(page)
        /\ reported' = Append(reported, [n |-> Len(complete) + 1, m |-> Len(jobids),
                                         id |-> jobids[idx].k, final |-> FALSE])
        /\ writes' = Append(writes, [id |-> jobids[idx].k, name |-> DictGet(jobids, jobids[idx].k)])
        /\ destFiles' = destFiles \cup {DictGet(jobids, jobids[idx].k)}
        /\ complete' = Append(complete, jobids[idx].k)
        /\ idx' = idx + 1
        /\ UNCHANGED <<tool, runs, pc, resume, inputDir, listing, paths, n, jobids,
                       error, disk, destExists, svcNext, disk0, uploaded,
                       passPending, saved, lastSaved>>
        /\ napped' = 0
        /\ UNCHANGED <<varsB, varsS, varsV>>

\* lines 116-118: the status is ERROR: complete.append(id), then the name
\* jobsid of line 118 is not defined and NameError leaves check
CheckError ==
    \E page \in Pages :
        /\ StatusQuery(page)
        /\ ~IsDisplayed(page)
        /\ StatusIsError(page)
        /\ complete' = Append(complete, jobids[idx].k)
        /\ pc' = "raised"
        /\ UNCHANGED <<tool, runs, resume, inputDir, listing, paths, n, jobids,
                       error, idx, disk, destExists, destFiles, svcNext, disk0,
                       uploaded, writes, reported, passPending, saved, lastSaved>>
        /\ napped' = 0
        /\ UNCHANGED <<varsB, varsS, varsV>>

\* CheckPending with continue in the place of break
CheckPendingContinue ==
    \E page \in Pages :
        /\ StatusQuery(page)
        /\ ~page.displayed
        /\ page.status # "ERROR"
        /\ idx' = idx + 1
        /\ UNCHANGED <<tool, runs, pc, resume, inputDir, listing, paths, n, jobids, complete,
                       error, disk, destExists, destFiles, svcNext, disk0,
                       uploaded, writes, reported, passPending, saved, lastSaved>>
        /\ napped' = 0
        /\ UNCHANGED <<varsB, varsS, varsV>>

\* lines 120-121: the job is still processing: break
CheckPending ==
    \E page \in Pages :
        /\ StatusQuery(page)
        /\ ~IsDisplayed(page)
        /\ ~StatusIsError(page)
        /\ pc' = "while"
        /\ UNCHANGED <<tool, runs, resume, inputDir, listing, paths, n, jobids, complete,
                       error, idx, disk, destExists, destFiles, svcNext, disk0,
                       uploaded, writes, reported, passPending, saved, lastSaved>>
        /\ napped' = 0
        /\ UNCHANGED <<varsB, varsS, varsV>>

\* line 100: the for loop is exhausted
CheckForEnd ==
    /\ pc = "for"
    /\ idx > Len(jobids)
    /\ pc' = "while"
    /\ UNCHANGED <<tool, runs, resume, inputDir, listing, paths, n, jobids, complete,
                   error, idx, lastId, disk, destExists, destFiles, svcNext, disk0,
                   uploaded, seen, writes, reported, passPending, passQueried, saved, lastSaved>>
    /\ UNCHANGED napped
    /\ UNCHANGED <<varsB, varsS, varsV>>

\* line 123 when no pass ever ran: the local id is unbound, UnboundLocalError
CheckFinalUnbound ==
    /\ pc = "final"
    /\ lastId = <<>>
    /\ pc' = "raised"
    /\ UNCHANGED <<tool, runs, resume, inputDir, listing, paths, n, jobids, complete,
                   error, idx, lastId, disk, destExists, destFiles, svcNext, disk0,
                   uploaded, seen, writes, reported, passPending, passQueried, saved, lastSaved>>
    /\ UNCHANGED napped
    /\ UNCHANGED <<varsB, varsS, varsV>>

\* lines 123-124: the closing message, check returns
CheckFinal ==
    /\ pc = "final"
    /\ lastId # <<>>
    /\ reported' = Append(reported, [n |-> Len(complete) + 1, m |-> Len(jobids),
                                     id |-> lastId, final |-> TRUE])
    /\ pc' = "returned"
    /\ UNCHANGED <<tool, runs, resume, inputDir, listing, paths, n, jobids, complete,
                   error, idx, lastId, disk, destExists, destFiles, svcNext, disk0,
                   uploaded, seen, writes, passPending, passQueried, saved, lastSaved>>
    /\ UNCHANGED napped
    /\ UNCHANGED <<varsB, varsS, varsV>>

\* line 160: driver.close(), the script ends
MainClose ==
    /\ pc = "returned"
    /\ pc' = "done"
    /\ UNCHANGED <<tool, runs, resume, inputDir, listing, paths, n, jobids, complete,
                   error, idx, lastId, disk, destExists, destFiles, svcNext, disk0,
                   uploaded, seen, writes, reported, passPending, passQueried, saved, lastSaved>>
    /\ UNCHANGED napped
    /\ UNCHANGED <<varsB, varsS, varsV>>

NextA ==
    \/ \E f \in BOOLEAN : Launch(f)
    \/ Interrupt
    \/ MainMissing
    \/ MainLoad
    \/ MainList
    \/ SubmitSkip
    \/ SubmitUpload
    \/ \E sent \in BOOLEAN : SubmitFail(sent)
    \/ SubmitReturn
    \/ MainSave
    \/ CheckEnter
    \/ CheckPassBegin
    \/ CheckLoopExit
    \/ CheckSkip
    \/ CheckDownload
    \/ CheckError
    \/ CheckPending
    \/ CheckForEnd
    \/ CheckFinalUnbound
    \/ CheckFinal
    \/ MainClose

(* ------------------- Pipeline B: opensnp-scraper.py -------------------- *)

\* the most URLs of a scrape manifest
MaxUrls == 2

\* the most pool processes (-n)
MaxProcs == 2

\* str(args['p'][0])
Pheno == <<"24">>

\* args['o'][0]
OutPath == <<"out">>

\* variant values of the phenotype
Variants == { <<"Yes">>, <<"No">> }

\* hrefs of raw data files, as get_file accepts them
Urls == { <<"/", "data", "/", "1", ".", "23andme", ".", "10">>,
          <<"/", "data", "/", "2", ".", "23andme", ".", "11">>,
          <<"/", "data", "/", "1", ".", "23andme", ".", "10", "?", "v2">> }

\* the index of the first occurrence of tok in s, Len(s) + 1 when there is none
FirstIndexOf(s, tok) ==
    IF Contains(s, tok) THEN CHOOSE i \in DOMAIN s :
                                /\ s[i] = tok
                                /\ \A j \in DOMAIN s : s[j] = tok => i <= j
                        ELSE Len(s) + 1

\* Python: s.split(sep)[0]
SplitFirst(s, sep) == SubSeq(s, 1, FirstIndexOf(s, sep) - 1)

\* line 271: f.split(os.path.sep)[-1].split('?')[0]
DestName(f) == SplitFirst(SplitLast(f, "/"), "?")

\* line 261: root = os.path.join(path, pheno)
Root == PathJoin(OutPath, Pheno)

\* line 268: wd = os.path.join(root, p)
VariantDir(p) == PathJoin(Root, p)

\* the tasks of one variant with every destination directly under the root
VariantTasksFlat(p, urls) ==
    [i \in DOMAIN urls |-> [ext |-> urls[i], path |-> PathJoin(Root, DestName(urls[i]))]]

\* line 271: the tasks of one variant
VariantTasks(p, urls) ==
    [i \in DOMAIN urls |-> [ext |-> urls[i], path |-> PathJoin(VariantDir(p), DestName(urls[i]))]]

\* lines 265-271: tmp, over the variants in the order of the manifest
RECURSIVE BuildTasks(_)
BuildTasks(files) ==
    IF files = <<>> THEN <<>>
    ELSE VariantTasks(Head(files).k, Head(files).v) \o BuildTasks(Tail(files))

\* line 266: n = sum([len(files[p]) for p in files])
RECURSIVE CountUrls(_)
CountUrls(files) ==
    IF files = <<>> THEN 0 ELSE Len(Head(files).v) + CountUrls(Tail(files))

\* IsFile that never finds the destination
IsFileNever(path) == FALSE

\* line 235: os.path.isfile(path)
IsFile(path) == path \in fsFiles

\* the sequences of distinct elements of S, of length 1..k
DistinctSeqs(S, k) ==
    UNION { { q \in [1..m -> S] : \A i, j \in 1..m : q[i] = q[j] => i = j } : m \in 1..k }

\* the manifests scrape saves: a dict from variant to a non-empty list of URLs,
\* a URL in one place only, at most MaxUrls URLs in all
Manifests ==
    {<<>>}
    \cup { <<[k |-> p, v |-> us]>> : p \in Variants, us \in DistinctSeqs(Urls, MaxUrls) }
    \cup { m \in { <<[k |-> p, v |-> us], [k |-> q, v |-> vs]>> :
                       p \in Variants, q \in Variants,
                       us \in DistinctSeqs(Urls, MaxUrls), vs \in DistinctSeqs(Urls, MaxUrls) } :
             /\ m[1].k # m[2].k
             /\ Range(m[1].v) \cap Range(m[2].v) = {}
             /\ Len(m[1].v) + Len(m[2].v) <= MaxUrls }

InitB ==
    /\ bpc = "idle"
    /\ runsB = 0
    /\ manifestFile \in {NoFile} \cup { [exists |-> TRUE, data |-> m] : m \in Manifests }
    /\ fsDirs = {OutPath}
    /\ fsFiles = {}
    /\ nproc = 1
    /\ tasks = <<>>
    /\ taskState = <<>>
    /\ results = 0
    /\ progressLog = <<>>
    /\ fetches = 0
    /\ fileWrites = 0
    /\ dirsMade = {}
    /\ wrote = {}
    /\ afterComplete = FALSE

\* lines 336-358: the script is started with -d and -n np
LaunchDownload(np) ==
    /\ tool = "scraper"
    /\ bpc \in {"idle"} \cup Stopped
    /\ runsB < MaxRuns
    /\ runsB' = runsB + 1
    /\ nproc' = np
    /\ bpc' = "read"
    /\ tasks' = <<>>
    /\ taskState' = <<>>
    /\ results' = 0
    /\ progressLog' = <<>>
    /\ fetches' = 0
    /\ fileWrites' = 0
    /\ dirsMade' = {}
    /\ afterComplete' = (bpc = "done")
    /\ UNCHANGED <<manifestFile, fsDirs, fsFiles>>
    /\ wrote' = {}
    /\ UNCHANGED <<varsA, varsS, varsV>>

\* ReadMissing that goes on with an empty manifest
ReadMissingGoesOn ==
    /\ bpc = "read"
    /\ ~manifestFile.exists
    /\ fsDirs' = fsDirs \cup {PathJoin(OutPath, Pheno)}
    /\ dirsMade' = {PathJoin(OutPath, Pheno)} \ fsDirs
    /\ bpc' = "pool"
    /\ UNCHANGED <<runsB, manifestFile, fsFiles, nproc, tasks, taskState, results,
                   progressLog, fetches, fileWrites, afterComplete>>
    /\ UNCHANGED wrote
    /\ UNCHANGED <<varsA, varsS, varsV>>

\* lines 260, 68-69: read finds no manifest and exits
ReadMissing ==
    /\ bpc = "read"
    /\ ~manifestFile.exists
    /\ bpc' = "exit_error"
    /\ UNCHANGED <<runsB, manifestFile, fsDirs, fsFiles, nproc, tasks, taskState, results,
                   progressLog, fetches, fileWrites, dirsMade, afterComplete>>
    /\ UNCHANGED wrote
    /\ UNCHANGED <<varsA, varsS, varsV>>

\* download making sure of the root only
WantedDirsRootOnly(files) == {Root}

\* the directories download makes sure of: root and one per variant
WantedDirs(files) == {Root} \cup {VariantDir(files[i].k) : i \in DOMAIN files}

\* lines 260-273: the manifest is read, the tree and the tasks are built, the
\* pool is started
DownloadBuild ==
    /\ bpc = "read"
    /\ manifestFile.exists
    /\ fsDirs' = fsDirs \cup WantedDirs(manifestFile.data)
    /\ dirsMade' = WantedDirs(manifestFile.data) \ fsDirs
    /\ tasks' = BuildTasks(manifestFile.data)
    /\ taskState' = [i \in DOMAIN BuildTasks(manifestFile.data) |-> "todo"]
    /\ bpc' = "pool"
    /\ UNCHANGED <<runsB, manifestFile, fsFiles, nproc, results, progressLog, fetches,
                   fileWrites, afterComplete>>
    /\ UNCHANGED wrote
    /\ UNCHANGED <<varsA, varsS, varsV>>

\* the tasks a worker is in the middle of
InFlight == {i \in DOMAIN taskState : taskState[i] = "fetching"}

\* the pool hands out the tasks in the order of the list
NextTask(i) ==
    /\ i \in DOMAIN taskState
    /\ taskState[i] = "todo"
    /\ \A j \in DOMAIN taskState : j < i => taskState[j] # "todo"
    /\ Cardinality(InFlight) < nproc

\* lines 234-237, 274-275: the destination exists, the task returns
TaskSkip(i) ==
    /\ bpc = "pool"
    /\ NextTask(i)
    /\ IsFile(tasks[i].path)
    /\ taskState' = [taskState EXCEPT ![i] = "done"]
    /\ results' = results + 1
    /\ progressLog' = Append(progressLog, <<results + 1, CountUrls(manifestFile.data)>>)
    /\ UNCHANGED <<bpc, runsB, manifestFile, fsDirs, fsFiles, nproc, tasks, fetches,
                   fileWrites, dirsMade, afterComplete>>
    /\ UNCHANGED wrote
    /\ UNCHANGED <<varsA, varsS, varsV>>

\* lines 234-238: the destination does not exist, the worker sends the request
TaskFetch(i) ==
    /\ bpc = "pool"
    /\ NextTask(i)
    /\ ~IsFile(tasks[i].path)
    /\ taskState' = [taskState EXCEPT ![i] = "fetching"]
    /\ fetches' = fetches + 1
    /\ UNCHANGED <<bpc, runsB, manifestFile, fsDirs, fsFiles, nproc, tasks, results,
                   progressLog, fileWrites, dirsMade, afterComplete>>
    /\ UNCHANGED wrote
    /\ UNCHANGED <<varsA, varsS, varsV>>

\* lines 238-239, 274-275: the response is written to the destination
TaskWrite(i) ==
    /\ bpc = "pool"
    /\ i \in InFlight
    /\ fsFiles' = fsFiles \cup {tasks[i].path}
    /\ fileWrites' = fileWrites + 1
    /\ taskState' = [taskState EXCEPT ![i] = "done"]
    /\ results' = results + 1
    /\ progressLog' = Append(progressLog, <<results + 1, CountUrls(manifestFile.data)>>)
    /\ UNCHANGED <<bpc, runsB, manifestFile, fsDirs, nproc, tasks, fetches,
                   dirsMade, afterComplete>>
    /\ wrote' = wrote \cup {i}
    /\ UNCHANGED <<varsA, varsS, varsV>>

\* a failed request that is reported and counted as a finished task
TaskRaiseLogged(i) ==
    /\ bpc = "pool"
    /\ i \in InFlight
    /\ taskState' = [taskState EXCEPT ![i] = "done"]
    /\ results' = results + 1
    /\ progressLog' = Append(progressLog, <<results + 1, CountUrls(manifestFile.data)>>)
    /\ UNCHANGED <<bpc, runsB, manifestFile, fsDirs, fsFiles, nproc, tasks, fetches,
                   fileWrites, dirsMade, afterComplete>>
    /\ UNCHANGED wrote
    /\ UNCHANGED <<varsA, varsS, varsV>>

\* line 238: requests.get raises; imap_unordered raises it in download and
\* the pool is terminated
TaskRaise(i) ==
    /\ bpc = "pool"
    /\ i \in InFlight
    /\ bpc' = "raised"
    /\ UNCHANGED <<runsB, manifestFile, fsDirs, fsFiles, nproc, tasks, taskState, results,
                   progressLog, fetches, fileWrites, dirsMade, afterComplete>>
    /\ UNCHANGED wrote
    /\ UNCHANGED <<varsA, varsS, varsV>>

\* line 276 when there was no task: the local i is unbound, UnboundLocalError
DownloadFinishUnbound ==
    /\ bpc = "pool"
    /\ tasks = <<>>
    /\ bpc' = "raised"
    /\ UNCHANGED <<runsB, manifestFile, fsDirs, fsFiles, nproc, tasks, taskState, results,
                   progressLog, fetches, fileWrites, dirsMade, afterComplete>>
    /\ UNCHANGED wrote
    /\ UNCHANGED <<varsA, varsS, varsV>>

\* line 276: every result was yielded, the closing message, download returns
DownloadFinish ==
    /\ bpc = "pool"
    /\ tasks # <<>>
    /\ \A i \in DOMAIN taskState : taskState[i] = "done"
    /\ progressLog' = Append(progressLog, <<results, CountUrls(manifestFile.data)>>)
    /\ bpc' = "done"
    /\ UNCHANGED <<runsB, manifestFile, fsDirs, fsFiles, nproc, tasks, taskState, results,
                   fetches, fileWrites, dirsMade, afterComplete>>
    /\ UNCHANGED wrote
    /\ UNCHANGED <<varsA, varsS, varsV>>

NextB ==
    \/ \E np \in 1..MaxProcs : LaunchDownload(np)
    \/ ReadMissing
    \/ DownloadBuild
    \/ \E i \in DOMAIN tasks : TaskSkip(i)
    \/ \E i \in DOMAIN tasks : TaskFetch(i)
    \/ \E i \in DOMAIN tasks : TaskWrite(i)
    \/ \E i \in DOMAIN tasks : TaskRaise(i)
    \/ DownloadFinishUnbound
    \/ DownloadFinish

(* ------------------- opensnp-scraper.py: the scrape stage --------------- *)

MaxUsers == 2

\* Python: s.split(sep)
RECURSIVE Split(_, _)
Split(s, sep) ==
    IF ~Contains(s, sep) THEN <<s>>
    ELSE <<SplitFirst(s, sep)>> \o Split(SubSeq(s, FirstIndexOf(s, sep) + 1, Len(s)), sep)

\* the href of a link of a user page that is no genotype file of 23andme
AncestryHref == <<"/", "data", "/", "1", ".", "ancestry", ".", "3">>

\* the href of a link whose file name has no '.'
PlainHref == <<"/", "data", "/", "README">>

\* what the server may answer for a user page: another status than 200, a
\* page without the element 'genotypes' (list is FALSE), and pages with the
\* element and its links
UserPageSet ==
    { [ok |-> FALSE, list |-> FALSE, genotypes |-> <<>>],
      [ok |-> TRUE, list |-> FALSE, genotypes |-> <<>>],
      [ok |-> TRUE, list |-> TRUE, genotypes |-> <<>>],
      [ok |-> TRUE, list |-> TRUE, genotypes |-> <<AncestryHref>>],
      [ok |-> TRUE, list |-> TRUE, genotypes |-> <<PlainHref>>] }
    \cup { [ok |-> TRUE, list |-> TRUE, genotypes |-> <<AncestryHref, u>>] : u \in Urls }

\* the rows (user id, variant) of the table of the phenotype page
PhenoTables ==
    UNION { { [i \in 1..k |-> <<ToString(i), a[i]>>] : a \in [1..k -> Variants] } :
              k \in 0..MaxUsers }

\* what the server may answer for the page of the phenotype
PhenoPageSet ==
    {[ok |-> FALSE, table |-> <<>>]} \cup {[ok |-> TRUE, table |-> t] : t \in PhenoTables}

\* lines 121-128: the dict from variant to users, from the rows of the table
RECURSIVE BuildUsers(_, _)
BuildUsers(rows, d) ==
    IF rows = <<>> THEN d
    ELSE IF Head(rows)[2] \in Keys(d)
         THEN BuildUsers(Tail(rows),
                         DictSet(d, Head(rows)[2], Append(DictGet(d, Head(rows)[2]), Head(rows)[1])))
         ELSE BuildUsers(Tail(rows), DictSet(d, Head(rows)[2], <<Head(rows)[1]>>))

\* what get_file returns or does: kind is "url" with the href f, "none" for
\* the absent URL, "raise" for an exception
Found(href) == [kind |-> "url", f |-> href]
Absent == [kind |-> "none", f |-> <<>>]
Raises == [kind |-> "raise", f |-> <<>>]

\* lines 156-159: the first link whose file name has '23andme' as its second
\* component; split('.')[1] of a name without '.' is an IndexError
RECURSIVE FirstMatch(_)
FirstMatch(links) ==
    IF links = <<>> THEN Absent
    ELSE IF Len(Split(SplitLast(Head(links), "/"), ".")) < 2 THEN Raises
    ELSE IF Split(SplitLast(Head(links), "/"), ".")[2] = <<"23andme">> THEN Found(Head(links))
    ELSE FirstMatch(Tail(links))

\* lines 151-159: get_file for the pair user = (u, p), the server answering
\* page; page.find(id='genotypes') of a page without the element is None, and
\* None.find_all is an AttributeError
GetFile(user, page) ==
    LET r == IF ~page.ok THEN Absent
             ELSE IF ~page.list THEN Raises
             ELSE FirstMatch(page.genotypes)
    IN  [kind |-> r.kind, u |-> user[1], p |-> user[2], f |-> r.f]

\* line 182: users_rev = [(u,p) for p in users for u in users[p]]
RECURSIVE UsersRev(_)
UsersRev(d) ==
    IF d = <<>> THEN <<>>
    ELSE [i \in DOMAIN Head(d).v |-> <<Head(d).v[i], Head(d).k>>] \o UsersRev(Tail(d))

\* an append that replaces the list of the variant
TmpAddOverwrite(tmp, p, f) == DictSet(tmp, p, <<f>>)

\* lines 212-215: the URL f is put under the variant p
TmpAdd(tmp, p, f) ==
    IF p \in Keys(tmp) THEN DictSet(tmp, p, Append(DictGet(tmp, p), f))
    ELSE DictSet(tmp, p, <<f>>)

\* lines 208-217: the loop over the results, from tmp and err as they are
RECURSIVE Collect(_, _, _)
Collect(fs, tmp, err) ==
    IF fs = <<>> THEN [tmp |-> tmp, err |-> err]
    ELSE IF Head(fs).kind = "url" /\ Head(fs).f # <<>>
         THEN Collect(Tail(fs), TmpAdd(tmp, Head(fs).p, Head(fs).f), err)
         ELSE Collect(Tail(fs), tmp, Append(err, Head(fs).u))

\* the place of a pair whose get_file has not ended
Pending == [kind |-> "pending", u |-> "", p |-> <<>>, f |-> <<>>]

\* the state of download, which scrape leaves alone
varsDownload == <<bpc, runsB, fsDirs, fsFiles, nproc, tasks, taskState, results,
                  progressLog, fetches, fileWrites, dirsMade, wrote, afterComplete>>

\* scrape has not run
InitS ==
    /\ spc = "idle"
    /\ sproc = 1
    /\ phenoPage = [ok |-> FALSE, table |-> <<>>]
    /\ users = <<>>
    /\ userPages = <<>>
    /\ users_rev = <<>>
    /\ gfState = <<>>
    /\ gfResult = <<>>
    /\ order = <<>>
    /\ sfiles = <<>>
    /\ errFile = NoFile

\* lines 336-354: the script is started with -s and -n np
LaunchScrape(np) ==
    /\ tool = "scraper"
    /\ spc = "idle"
    /\ spc' = "users"
    /\ sproc' = np
    /\ UNCHANGED <<phenoPage, users, userPages, users_rev, gfState, gfResult, order,
                   sfiles, errFile>>
    /\ UNCHANGED <<varsA, manifestFile, varsDownload, varsV>>

\* lines 116-119: the page of the phenotype is not served, sys.exit
GetUsersExit ==
    /\ spc = "users"
    /\ ~phenoPage.ok
    /\ spc' = "exit_error"
    /\ UNCHANGED <<sproc, phenoPage, users, userPages, users_rev, gfState, gfResult,
                   order, sfiles, errFile>>
    /\ UNCHANGED <<varsA, manifestFile, varsDownload, varsV>>

\* lines 116-130, 201-206, 182-183: the users by variant, the pairs, the pool
GetUsers ==
    /\ spc = "users"
    /\ phenoPage.ok
    /\ users' = BuildUsers(phenoPage.table, <<>>)
    /\ users_rev' = UsersRev(BuildUsers(phenoPage.table, <<>>))
    /\ gfState' = [i \in DOMAIN UsersRev(BuildUsers(phenoPage.table, <<>>)) |-> "todo"]
    /\ gfResult' = [i \in DOMAIN UsersRev(BuildUsers(phenoPage.table, <<>>)) |-> Pending]
    /\ spc' = "pool"
    /\ UNCHANGED <<sproc, phenoPage, userPages, order, sfiles, errFile>>
    /\ UNCHANGED <<varsA, manifestFile, varsDownload, varsV>>

\* the pairs a worker is in the middle of
Running == {i \in DOMAIN gfState : gfState[i] = "running"}

\* lines 151-152: a worker takes the next pair and sends the request
GetFileStart(i) ==
    /\ spc = "pool"
    /\ i \in DOMAIN gfState
    /\ gfState[i] = "todo"
    /\ \A j \in DOMAIN gfState : j < i => gfState[j] # "todo"
    /\ Cardinality(Running) < sproc
    /\ gfState' = [gfState EXCEPT ![i] = "running"]
    /\ UNCHANGED <<spc, sproc, phenoPage, users, userPages, users_rev, gfResult, order,
                   sfiles, errFile>>
    /\ UNCHANGED <<varsA, manifestFile, varsDownload, varsV>>

\* a result that is put in the place of the next pair, as the results come
GetFileEndUnordered(i) ==
    /\ spc = "pool"
    /\ i \in Running
    /\ gfState' = [gfState EXCEPT ![i] = "done"]
    /\ gfResult' = [gfResult EXCEPT ![Len(order) + 1] =
                       [GetFile(users_rev[i], userPages[users_rev[i][1]])
                          EXCEPT !.u = users_rev[Len(order) + 1][1],
                                 !.p = users_rev[Len(order) + 1][2]]]
    /\ order' = Append(order, i)
    /\ UNCHANGED <<spc, sproc, phenoPage, users, userPages, users_rev, sfiles, errFile>>
    /\ UNCHANGED <<varsA, manifestFile, varsDownload, varsV>>

\* lines 152-159, 184: get_file ends; pool.map keeps the result in the place
\* of its pair
GetFileEnd(i) ==
    /\ spc = "pool"
    /\ i \in Running
    /\ gfState' = [gfState EXCEPT ![i] = "done"]
    /\ gfResult' = [gfResult EXCEPT ![i] = GetFile(users_rev[i], userPages[users_rev[i][1]])]
    /\ order' = Append(order, i)
    /\ UNCHANGED <<spc, sproc, phenoPage, users, userPages, users_rev, sfiles, errFile>>
    /\ UNCHANGED <<varsA, manifestFile, varsDownload, varsV>>

\* line 184: every get_file has ended and one of them raised: pool.map raises
\* the exception in scrape
MapRaises ==
    /\ spc = "pool"
    /\ \A i \in DOMAIN gfState : gfState[i] = "done"
    /\ \E i \in DOMAIN gfResult : gfResult[i].kind = "raise"
    /\ spc' = "raised"
    /\ UNCHANGED <<sproc, phenoPage, users, userPages, users_rev, gfState, gfResult,
                   order, sfiles, errFile>>
    /\ UNCHANGED <<varsA, manifestFile, varsDownload, varsV>>

\* lines 184, 206-220: pool.map returns the list; the manifest and the list
\* of failed users are built and saved
ScrapeSave ==
    /\ spc = "pool"
    /\ \A i \in DOMAIN gfState : gfState[i] = "done"
    /\ \A i \in DOMAIN gfResult : gfResult[i].kind # "raise"
    /\ sfiles' = gfResult
    /\ manifestFile' = [exists |-> TRUE, data |-> Collect(gfResult, <<>>, <<>>).tmp]
    /\ errFile' = [exists |-> TRUE, data |-> Collect(gfResult, <<>>, <<>>).err]
    /\ spc' = "done"
    /\ UNCHANGED <<sproc, phenoPage, users, userPages, users_rev, gfState, gfResult, order>>
    /\ UNCHANGED <<varsA, varsDownload, varsV>>

NextS ==
    \/ \E np \in 1..MaxProcs : LaunchScrape(np)
    \/ GetUsersExit
    \/ GetUsers
    \/ \E i \in DOMAIN gfState : GetFileStart(i)
    \/ \E i \in DOMAIN gfState : GetFileEnd(i)
    \/ MapRaises
    \/ ScrapeSave

(* -------------------- opensnp-scraper.py: the validation ---------------- *)

MaxTree == 2

\* first lines of downloaded files, as lists of the words between white space
\* (a word is a list of tokens): the header of 23andMe, a header with the
\* signature inside a word, a header of columns, and the empty file
Header23andMe == << <<"#">>, <<"generated">>, <<"by">>, <<"23andMe">>, <<"at:">> >>
HeaderInWord == << <<"#", "23andMe">>, <<"data">> >>
HeaderColumns == << <<"rsid">>, <<"chromosome">>, <<"position">>, <<"genotype">> >>
HeaderEmpty == << >>

\* the content of a file: whether reading its first line as text succeeds,
\* and that line
Contents ==
    {[readable |-> FALSE, first |-> HeaderEmpty]}
    \cup { [readable |-> TRUE, first |-> h] :
             h \in {Header23andMe, HeaderInWord, HeaderColumns, HeaderEmpty} }

\* names of files in the tree: one of the naming convention, one not
TreeNames == { <<"1", ".", "23andme", ".", "10">>, <<"notes", ".", "txt">> }

\* the places of files in the tree of the phenotype
TreePlaces == { <<VariantDir(p), name>> : p \in Variants, name \in TreeNames }

\* line 314: bad = os.path.join(root, '24-bad')
Bad == PathJoin(OutPath, <<"24-bad">>)

\* line 320: '23andme' in name
NameMatches(name) == Contains(name, "23andme")

\* line 324: '23andMe' in first.split()
HasSignature(first) == \E w \in DOMAIN first : first[w] = <<"23andMe">>

\* lines 291-292: the place move_bad gives the file name of the directory path
MoveBad(bad, path, name) ==
    PathJoin(PathJoin(bad, SplitLast(path, "/")), <<"bad_">> \o name)

\* line 293: os.renames(old, new) on the tree t
Renames(t, old, new) ==
    [q \in (DOMAIN t \ {old}) \cup {new} |-> IF q = new THEN t[old] ELSE t[q]]

\* the path of the file os.walk met at position i
OldPath(i) == PathJoin(walk[i].path, walk[i].name)

\* the orders in which os.walk may meet the files of the tree t: every file
\* once, the files of one directory one after the other
WalkOrders(t) ==
    { w \in {<<>>} \cup DistinctSeqs({[path |-> pl[1], name |-> pl[2]] : pl \in TreePlaces}, MaxTree) :
        /\ {PathJoin(w[i].path, w[i].name) : i \in DOMAIN w} = DOMAIN t
        /\ \A i, j, k \in DOMAIN w :
               (i < j /\ j < k /\ w[i].path = w[k].path) => w[j].path = w[i].path }

\* the validation has not run
InitV ==
    /\ vpc = "idle"
    /\ tree = <<>>
    /\ walk = <<>>
    /\ vidx = 1
    /\ err_count = 0
    /\ vout = <<>>

\* lines 336-361, 311-318: the script is started with -c; the walk begins
LaunchValid ==
    /\ tool = "scraper"
    /\ vpc = "idle"
    /\ vpc' = "walk"
    /\ walk' \in WalkOrders(tree)
    /\ vidx' = 1
    /\ err_count' = 0
    /\ vout' = <<>>
    /\ UNCHANGED tree
    /\ UNCHANGED <<varsA, varsB, varsS>>

\* lines 319-320: a file whose name has no '23andme'
ValidSkip ==
    /\ vpc = "walk"
    /\ vidx <= Len(walk)
    /\ ~NameMatches(walk[vidx].name)
    /\ vidx' = vidx + 1
    /\ UNCHANGED <<vpc, tree, walk, err_count, vout>>
    /\ UNCHANGED <<varsA, varsB, varsS>>

\* lines 320-324: the first line is read and has the word '23andMe'
ValidKeep ==
    /\ vpc = "walk"
    /\ vidx <= Len(walk)
    /\ NameMatches(walk[vidx].name)
    /\ tree[OldPath(vidx)].readable
    /\ HasSignature(tree[OldPath(vidx)].first)
    /\ vidx' = vidx + 1
    /\ UNCHANGED <<vpc, tree, walk, err_count, vout>>
    /\ UNCHANGED <<varsA, varsB, varsS>>

\* lines 320-327: the first line is read and has not the word: the message,
\* the file is moved, the counter
ValidMismatch ==
    /\ vpc = "walk"
    /\ vidx <= Len(walk)
    /\ NameMatches(walk[vidx].name)
    /\ tree[OldPath(vidx)].readable
    /\ ~HasSignature(tree[OldPath(vidx)].first)
    /\ vout' = Append(vout, [kind |-> "mismatch", name |-> walk[vidx].name, n |-> 0])
    /\ tree' = Renames(tree, OldPath(vidx), MoveBad(Bad, walk[vidx].path, walk[vidx].name))
    /\ err_count' = err_count + 1
    /\ vidx' = vidx + 1
    /\ UNCHANGED <<vpc, walk>>
    /\ UNCHANGED <<varsA, varsB, varsS>>

\* lines 321-323, 328-331: reading raises: the message, the file is moved,
\* the counter
ValidException ==
    /\ vpc = "walk"
    /\ vidx <= Len(walk)
    /\ NameMatches(walk[vidx].name)
    /\ ~tree[OldPath(vidx)].readable
    /\ vout' = Append(vout, [kind |-> "exception", name |-> walk[vidx].name, n |-> 0])
    /\ tree' = Renames(tree, OldPath(vidx), MoveBad(Bad, walk[vidx].path, walk[vidx].name))
    /\ err_count' = err_count + 1
    /\ vidx' = vidx + 1
    /\ UNCHANGED <<vpc, walk>>
    /\ UNCHANGED <<varsA, varsB, varsS>>

\* lines 318, 332: the walk is over, the total is printed
ValidDone ==
    /\ vpc = "walk"
    /\ vidx > Len(walk)
    /\ vout' = Append(vout, [kind |-> "total", name |-> <<>>, n |-> err_count])
    /\ vpc' = "done"
    /\ UNCHANGED <<tree, walk, vidx, err_count>>
    /\ UNCHANGED <<varsA, varsB, varsS>>

NextV ==
    \/ LaunchValid
    \/ ValidSkip
    \/ ValidKeep
    \/ ValidMismatch
    \/ ValidException
    \/ ValidDone

(* --------------------------- the whole model --------------------------- *)

\* a session with auto-hapimpute.py
InitHapimpute ==
    /\ tool = "hapimpute"
    /\ InitA
    /\ InitB
    /\ manifestFile = NoFile
    /\ InitS
    /\ InitV

\* a session with opensnp-scraper.py
InitScraper ==
    /\ tool = "scraper"
    /\ InitA
    /\ inputDir = <<"data", "/", "raw">>
    /\ listing = <<>>
    /\ InitB
    /\ InitS
    /\ InitV

Init == InitHapimpute \/ InitScraper

Next == NextA \/ NextB

Spec == Init /\ [][Next]_vars

\* a session that runs the scrape stage of opensnp-scraper.py against a server
InitScrape ==
    /\ tool = "scraper"
    /\ InitA
    /\ inputDir = <<"data", "/", "raw">>
    /\ listing = <<>>
    /\ InitB
    /\ manifestFile = NoFile
    /\ spc = "idle"
    /\ sproc = 1
    /\ phenoPage \in PhenoPageSet
    /\ users = <<>>
    /\ userPages \in [{phenoPage.table[i][1] : i \in DOMAIN phenoPage.table} -> UserPageSet]
    /\ users_rev = <<>>
    /\ gfState = <<>>
    /\ gfResult = <<>>
    /\ order = <<>>
    /\ sfiles = <<>>
    /\ errFile = NoFile
    /\ InitV

SpecScrape == InitScrape /\ [][NextS]_vars

\* a session that runs the validation over a tree of downloaded files
InitValid ==
    /\ tool = "scraper"
    /\ InitA
    /\ inputDir = <<"data", "/", "raw">>
    /\ listing = <<>>
    /\ InitB
    /\ manifestFile = NoFile
    /\ InitS
    /\ vpc = "idle"
    /\ tree \in UNION { [{PathJoin(pl[1], pl[2]) : pl \in ps} -> Contents] :
                          ps \in {qs \in SUBSET TreePlaces : Cardinality(qs) <= MaxTree} }
    /\ walk = <<>>
    /\ vidx = 1
    /\ err_count = 0
    /\ vout = <<>>

SpecValid == InitValid /\ [][NextV]_vars

\* the steps of auto-hapimpute.py itself: everything but its start and its
\* termination from outside
ProgramA ==
    \/ MainMissing
    \/ MainLoad
    \/ MainList
    \/ SubmitSkip
    \/ SubmitUpload
    \/ \E sent \in BOOLEAN : SubmitFail(sent)
    \/ SubmitReturn
    \/ MainSave
    \/ CheckEnter
    \/ CheckPassBegin
    \/ CheckLoopExit
    \/ CheckSkip
    \/ CheckDownload
    \/ CheckError
    \/ CheckPending
    \/ CheckForEnd
    \/ CheckFinalUnbound
    \/ CheckFinal
    \/ MainClose

FairNext == (\E f \in BOOLEAN : Launch(f)) \/ ProgramA

\* an uninterrupted process keeps running (the script is sequential), and the
\* service does not answer RUNNING for ever: a status query that can be
\* answered with the link or with ERROR infinitely often is so answered
FairSpec ==
    /\ Init
    /\ [][FairNext]_vars
    /\ WF_vars(ProgramA)
    /\ SF_vars(CheckDownload \/ CheckError)

(* ------------------------------- claims -------------------------------- *)

\* the ids a status query of this run showed with the download link visible
VisibleIds == {q[1] : q \in {r \in seen : r[2].displayed}}

\* the ids a status query of this run showed with the status ERROR
ErrorIds == {q[1] : q \in {r \in seen : ~r[2].displayed /\ r[2].status = "ERROR"}}

\* the ids this run asked the status of
PolledIds == {q[1] : q \in seen}

WrittenIds == {writes[i].id : i \in DOMAIN writes}

ReportedIds == {reported[i].id : i \in DOMAIN reported}

\* the ids submit read off the page in this run
CapturedIds == {uploaded[i].id : i \in {j \in DOMAIN uploaded : uploaded[j].got}}

IsPrefix(s, t) == Len(s) <= Len(t) /\ \A i \in DOMAIN s : s[i] = t[i]

\* check is running or has ended by itself: its locals are as it left them
InCheck == pc \in {"while", "for", "final", "returned", "done"}

\* C1, as claimed: a job is in the complete list, named in a 'Downloaded N of
\* M' message or has its artifact written only after a status query for its
\* id showed the download link.
C1_CompleteOnlyAfterVisible ==
    Range(complete) \cup ReportedIds \cup WrittenIds \subseteq VisibleIds

\* C1, amended: a job's artifact is written and the job is named in a
\* 'Downloaded N of M' message only after a status query for its id showed
\* the download link, and the N of a per-job message is at most the number of
\* jobs whose link was shown (the closing message prints one more than that
\* number); the complete list also takes the jobs whose status was ERROR.
C1_ArtifactOnlyAfterVisible ==
    /\ ReportedIds \cup WrittenIds \subseteq VisibleIds
    /\ Range(complete) \subseteq VisibleIds \cup ErrorIds
    /\ \A i \in DOMAIN reported :
          reported[i].n = Cardinality(VisibleIds) + (IF reported[i].final THEN 1 ELSE 0)
          \/ (~reported[i].final /\ reported[i].n <= Cardinality(VisibleIds))

\* C1: check has downloaded two jobs and returned
C1_Witness == pc = "done" /\ Len(writes) >= 2 /\ Len(reported) >= 3

\* C2: once check is entered with a mapping of at least one job, it
\* eventually returns normally, with every job in a terminal state, provided
\* the service ends up answering every status query with the link or with
\* ERROR.
C2_CheckReturns ==
    (pc = "check" /\ jobids # <<>>)
        ~> (pc = "returned" /\ Keys(jobids) \subseteq Range(complete))

\* C3: a job whose status query returned ERROR is terminal: it is in the
\* list of failed jobs, and check goes on (it has not been left by an
\* exception).
C3_ErrorIsRecorded ==
    (pc \in {"while", "for", "final", "returned", "done", "raised"})
        => \A id \in ErrorIds : /\ id \in Keys(jobids)
                                /\ DictGet(jobids, id) \in Range(error)
                                /\ pc # "raised"

\* C4, as claimed: when a pass has ended, it has asked for the status of
\* every job that was pending when it began.
C4_PassQueriesAllPending ==
    (pc = "while" /\ passPending # <<>>) => passQueried = passPending

\* C4, amended: a pass asks for the status of the pending jobs in submission
\* order up to and including the first that is still processing; there it
\* breaks, and the pending jobs after that one are not asked for in this pass.
C4_PassQueriesUpToFirstRunning ==
    (pc \in {"while", "for", "final", "returned", "done", "raised"}) =>
        /\ IsPrefix(passQueried, passPending)
        /\ \A i \in 1..(Len(passQueried) - 1) : passQueried[i] \in Range(complete)
        /\ (pc = "while" /\ passPending # <<>>) =>
              \/ passQueried = passPending
              \/ /\ passQueried # <<>>
                 /\ passQueried[Len(passQueried)] \notin Range(complete)
                 /\ <<passQueried[Len(passQueried)], [displayed |-> FALSE, status |-> "RUNNING"]>> \in seen

\* C4: a pass has ended at its first job, with another pending job not asked for
C4_Witness == pc = "while" /\ Len(passPending) >= 2 /\ Len(passQueried) = 1

\* C5, as claimed: when the process has been interrupted or submit has
\* failed, the job ids of the submissions made so far are in the checkpoint.
C5_SubmittedIdsAreCheckpointed ==
    (tool = "hapimpute" /\ ~resume /\ pc \in {"killed", "raised"}) =>
        \A id \in CapturedIds : disk.exists /\ id \in Keys(PickleLoad(disk.data))

\* C5, amended: the checkpoint is written once, after submit has returned for
\* all the files. Until then, and when the process is interrupted or submit
\* fails after k submissions, the checkpoint is as the run found it and holds
\* none of the k job ids; from the save on it holds all the submitted ids.
C5_CheckpointOnlyAfterSubmit ==
    (~resume /\ pc # "idle") =>
        IF saved
        THEN /\ pc \notin {"main", "submit", "save"}
             /\ disk.exists
             /\ Keys(PickleLoad(disk.data)) = CapturedIds
             /\ \A i \in DOMAIN uploaded : uploaded[i].got
        ELSE /\ pc \in {"main", "submit", "save", "killed", "raised"}
             /\ disk = disk0
             /\ CapturedIds \cap Keys(PickleLoad(disk.data)) = {}

\* C5: the process was interrupted in submit after two submissions
C5_Witness ==
    pc = "killed" /\ ~resume /\ ~saved /\ Len(uploaded) >= 2 /\ CapturedIds # {}

\* C6: a run with -f and a checkpoint submits nothing, leaves the checkpoint as
\* it is, and polls the jobs of the checkpoint: check is given the stored
\* mapping, asks for no other id, and has asked for each when it returns.
C6_ResumeNeverSubmits ==
    (resume /\ pc # "idle" /\ disk0.exists) =>
        /\ uploaded = <<>>
        /\ disk = disk0
        /\ ~saved
        /\ pc \notin {"submit", "save"}
        /\ PolledIds \subseteq Keys(PickleLoad(disk0.data))
        /\ (pc = "check" \/ InCheck) => jobids = PickleLoad(disk0.data)
        /\ pc \in {"returned", "done"} => PolledIds = Keys(PickleLoad(disk0.data))

\* C6: a resumed run has polled two stored jobs to the end
C6_Witness == resume /\ disk0.exists /\ pc = "done" /\ Cardinality(PolledIds) >= 2

\* C7: the mapping loaded from the checkpoint is the mapping that was saved:
\* the same job ids with the same source filename each.
C7_RoundTrip ==
    (resume /\ (pc = "check" \/ InCheck)) =>
        /\ jobids = lastSaved
        /\ Keys(jobids) = Keys(lastSaved)
        /\ \A id \in Keys(lastSaved) : DictGet(jobids, id) = DictGet(lastSaved, id)

\* C7: a resumed run has loaded a mapping of two jobs
C7_Witness == resume /\ pc = "for" /\ Len(jobids) >= 2 /\ Len(lastSaved) >= 2

\* C8: a missing checkpoint ends the run at once. With -f and no ids.pickle
\* the process gets no further than the exit: nothing is submitted or polled.
\* With -d and no manifest no directory is made and no file is fetched.
C8_MissingCheckpointIsFatal ==
    /\ (tool = "hapimpute" /\ resume /\ pc # "idle" /\ ~disk0.exists) =>
          /\ pc \in {"main", "exit_error", "killed"}
          /\ uploaded = <<>>
          /\ seen = {}
          /\ writes = <<>>
          /\ jobids = <<>>
          /\ ~disk.exists
    /\ (tool = "scraper" /\ bpc # "idle" /\ ~manifestFile.exists) =>
          /\ bpc \in {"read", "exit_error"}
          /\ dirsMade = {}
          /\ fetches = 0
          /\ fileWrites = 0
          /\ tasks = <<>>

\* C8: the download stage has exited for want of a manifest
C8_Witness == tool = "scraper" /\ bpc = "exit_error" /\ ~manifestFile.exists

\* line 57 as the claim reads it: the name of the file has the format's mark
NameIsExpectedFormat(f) == Contains(SplitLast(f, "/"), "23andme")

\* C9: the mapping submit returns has one entry for each input file whose
\* name matches the filter, with that file's name as the value, and no
\* entry for a file whose name does not match.
C9_SubmitMapsMatchingFiles ==
    (pc = "save") =>
        /\ \A i, j \in DOMAIN jobids : jobids[i].k = jobids[j].k => i = j
        /\ Values(jobids) = {SplitLast(paths[i], "/") :
                                i \in {j \in DOMAIN paths : NameIsExpectedFormat(paths[j])}}
        /\ Len(jobids) = Cardinality({j \in DOMAIN paths : NameIsExpectedFormat(paths[j])})

\* C10: a download run that follows a download run that ended normally, over
\* the same manifest and root, sends no request, writes no file and makes no
\* directory, whatever the order of the workers.
C10_SecondRunFetchesNothing ==
    (tool = "scraper" /\ afterComplete /\ bpc # "idle") =>
        /\ fetches = 0
        /\ fileWrites = 0
        /\ dirsMade = {}
        /\ \A i \in DOMAIN taskState : taskState[i] # "fetching"

\* C10: the second run over a manifest of two files has ended
C10_Witness ==
    afterComplete /\ bpc = "done" /\ Len(tasks) >= 2 /\ results = 2 /\ nproc = 2

\* the variant whose list holds the URL of the i-th task of the manifest files
RECURSIVE VariantOfTask(_, _)
VariantOfTask(files, i) ==
    IF i <= Len(Head(files).v) THEN Head(files).k
    ELSE VariantOfTask(Tail(files), i - Len(Head(files).v))

\* two tasks of the run that have the same destination path
SameDestination(i, j) == i # j /\ tasks[i].path = tasks[j].path

\* C11, as claimed: the destinations of the tasks are pairwise distinct, so
\* no two tasks pass the existence check and write the same destination file.
C11_NoTwoWritersOfOneFile ==
    \A i \in wrote : \A j \in wrote : ~SameDestination(i, j)

\* C11, amended: the destination of a task is a function of the variant and
\* of the file name of its URL: two tasks have the same destination exactly
\* when their URLs are listed under the same variant and have the same file
\* name, and only a pool of more than one worker writes a destination twice.
C11_DestinationIsVariantAndName ==
    /\ \A i \in DOMAIN tasks : \A j \in DOMAIN tasks :
           (tasks[i].path = tasks[j].path)
             <=> /\ VariantOfTask(manifestFile.data, i) = VariantOfTask(manifestFile.data, j)
                 /\ DestName(tasks[i].ext) = DestName(tasks[j].ext)
    /\ \A i \in wrote : \A j \in wrote : SameDestination(i, j) => nproc > 1

\* two workers passed the existence check and wrote the same destination
C11_Witness ==
    \E i \in wrote : \E j \in wrote : SameDestination(i, j)

\* C19: for every manifest, also one with no URL, download ends normally
\* (it is left by an exception only when a request failed) and the progress
\* it reports is 'N of total' with N rising by one per finished task from 1
\* and the last reported N equal to the total.
C19_ProgressRunsToTotal ==
    /\ bpc = "raised" => InFlight # {}
    /\ \A k \in DOMAIN progressLog :
           /\ progressLog[k][2] = CountUrls(manifestFile.data)
           /\ k <= results => progressLog[k][1] = k
    /\ bpc = "done" =>
           progressLog[Len(progressLog)][1] = CountUrls(manifestFile.data)

\* Python: os.path.dirname(f)
DirName(f) == SubSeq(f, 1, LastIndexOf(f, "/") - 1)

\* the files of the tree that lie directly in the directory d
FilesIn(d) == {f \in fsFiles : DirName(f) = d}

\* the directories of the tree below the root of the phenotype
VariantDirsOnDisk == {d \in fsDirs : d # Root /\ DirName(d) = Root}

\* C17, as claimed: after a completed download the tree holds one directory
\* per variant of the manifest and none for another variant, and each
\* variant directory holds one file per URL listed for the variant.
C17_OneFilePerUrl ==
    bpc = "done" =>
        /\ VariantDirsOnDisk
             = {VariantDir(manifestFile.data[i].k) : i \in DOMAIN manifestFile.data}
        /\ \A i \in DOMAIN manifestFile.data :
               Cardinality(FilesIn(VariantDir(manifestFile.data[i].k)))
                 = Len(manifestFile.data[i].v)

\* C17, amended: after a completed download the tree holds the root of the
\* phenotype and one directory per variant of the manifest, download has
\* created no other directory and none that was there, and each variant directory holds exactly
\* one file per distinct file name among the URLs listed for the variant.
C17_OneFilePerFileName ==
    bpc = "done" =>
        /\ Root \in fsDirs
        /\ \A i \in DOMAIN manifestFile.data :
               VariantDir(manifestFile.data[i].k) \in fsDirs
        /\ dirsMade \subseteq
               {Root} \cup {VariantDir(manifestFile.data[i].k) : i \in DOMAIN manifestFile.data}
        /\ afterComplete => dirsMade = {}
        /\ \A i \in DOMAIN manifestFile.data :
               FilesIn(VariantDir(manifestFile.data[i].k))
                 = { PathJoin(VariantDir(manifestFile.data[i].k), DestName(u)) :
                       u \in Range(manifestFile.data[i].v) }

\* a completed run over a variant with two URLs of one file name: the
\* variant directory holds one file
C17_Witness ==
    /\ bpc = "done"
    /\ \E i \in DOMAIN manifestFile.data :
           /\ Len(manifestFile.data[i].v) = 2
           /\ Cardinality(FilesIn(VariantDir(manifestFile.data[i].k))) = 1

\* submit was left by the exception of a failed upload
SubmitRaised == pc = "raised" /\ ~resume /\ ~saved

\* download was left by the exception of a failed request
DownloadRaised == bpc = "raised" /\ InFlight # {}

\* C16, as claimed: the failure of one item, an upload whose page element is
\* absent or a download whose request fails, is recovered per item: the
\* remaining items are processed and the stage ends normally.
C16_ItemFailureIsRecovered ==
    /\ ~SubmitRaised
    /\ ~DownloadRaised

\* C16, amended: the failure of one item ends its stage by the exception.
\* After a failed upload no later file is submitted and ids.pickle is as the
\* run found it; after a failed request download has yielded fewer results
\* than tasks and prints no closing message. A stage that ends normally had
\* no failed item: every upload gave its job id, every destination is a file.
C16_ItemFailureEndsTheStage ==
    /\ SubmitRaised =>
           /\ n \in DOMAIN paths
           /\ IsExpectedFormat(paths[n])
           /\ disk = disk0
           /\ \A m \in DOMAIN paths : \A u \in DOMAIN uploaded :
                  (m >= n /\ uploaded[u].got) => uploaded[u].path # paths[m]
    /\ pc = "save" => \A u \in DOMAIN uploaded : uploaded[u].got
    /\ DownloadRaised =>
           /\ results < Len(tasks)
           /\ Len(progressLog) = results
    /\ bpc = "done" => \A i \in DOMAIN tasks : tasks[i].path \in fsFiles

\* a request failed while a task was still waiting: the task is never run
C16_Witness ==
    /\ DownloadRaised
    /\ \E i \in DOMAIN taskState : taskState[i] = "todo"

\* a step of check that asks the service for the status of a job
QueryStep == Len(passQueried') = Len(passQueried) + 1

\* C18: once a pass has met a job that is still processing, no status query
\* is issued before the full sleep of 300 seconds: a query is either the
\* next of its pass after a job found terminal, or the sleep has elapsed
\* since the query before it; and every pass begins with the full sleep.
C18_QueriesWaitForTheSleep ==
    [][ /\ QueryStep =>
             \/ napped = SleepSeconds
             \/ /\ passQueried # <<>>
                /\ passQueried[Len(passQueried)] \in Range(complete)
        /\ (pc = "while" /\ pc' = "for") => napped' = SleepSeconds ]_vars

\* a pass is asking again after an earlier pass had met a job still processing
C18_Witness ==
    /\ pc = "for"
    /\ passQueried # <<>>
    /\ \E s \in seen : ~IsDisplayed(s[2]) /\ ~StatusIsError(s[2])

\* s has no element twice
NoDuplicates(s) == \A i \in DOMAIN s : \A j \in DOMAIN s : s[i] = s[j] => i = j

\* C20: a job that is in complete is never asked for again, its artifact is
\* written at most once, and an id is in complete at most once, so that
\* complete is never longer than the mapping.
C20_TerminalJobsAreLeftAlone ==
    /\ [](/\ NoDuplicates(complete)
          /\ Len(complete) <= Len(jobids)
          /\ NoDuplicates([i \in DOMAIN writes |-> writes[i].id]))
    /\ [][QueryStep => lastId' \notin Range(complete)]_vars

\* a later pass goes past a job that is in complete and asks for the next
C20_Witness ==
    /\ pc = "for"
    /\ complete # <<>>
    /\ passQueried # <<>>
    /\ \E i \in 1..(idx - 1) : /\ i \in DOMAIN jobids
                                /\ jobids[i].k \in Range(complete)
                                /\ jobids[i].k \notin Range(passQueried)

\* the results of the list of scrape that carry a URL, and those that do not
WithUrl == {i \in DOMAIN sfiles : sfiles[i].kind = "url"}
WithoutUrl == {i \in DOMAIN sfiles : sfiles[i].kind # "url"}

\* C12: after scrape every result is in exactly one place: one with a URL is
\* in the saved manifest under its own variant, one without has its user in
\* the saved list of failed users; the manifest holds nothing but the URLs of
\* results, once per result, and the list is as long as there are results
\* without a URL.
C12_EveryResultInOnePlace ==
    spc = "done" =>
        /\ \A i \in WithUrl :
               /\ sfiles[i].p \in Keys(manifestFile.data)
               /\ sfiles[i].f \in Range(DictGet(manifestFile.data, sfiles[i].p))
               /\ sfiles[i].u \notin Range(errFile.data)
        /\ \A i \in WithoutUrl : sfiles[i].u \in Range(errFile.data)
        /\ \A j \in DOMAIN manifestFile.data : \A x \in DOMAIN manifestFile.data[j].v :
               \E i \in WithUrl : /\ sfiles[i].f = manifestFile.data[j].v[x]
                                  /\ sfiles[i].p = manifestFile.data[j].k
        /\ CountUrls(manifestFile.data) = Cardinality(WithUrl)
        /\ Len(errFile.data) = Cardinality(WithoutUrl)
        /\ \A x \in DOMAIN errFile.data :
               \E i \in WithoutUrl : sfiles[i].u = errFile.data[x]

\* scrape has saved a manifest with a URL and a list with a failed user
C12_Witness ==
    /\ spc = "done"
    /\ WithUrl # {}
    /\ WithoutUrl # {}
    /\ manifestFile.data # <<>>
    /\ errFile.data # <<>>

\* the file name of href has '23andme' as its second component
IsGenotypeOf23andme(href) ==
    /\ Len(Split(SplitLast(href, "/"), ".")) >= 2
    /\ Split(SplitLast(href, "/"), ".")[2] = <<"23andme">>

\* what the server gives for the user of a row: the URLs of its page that
\* get_file accepts
UrlsOfUser(u) ==
    IF userPages[u].ok /\ userPages[u].list
    THEN {h \in Range(userPages[u].genotypes) : IsGenotypeOf23andme(h)}
    ELSE {}

\* the URLs the manifest d lists under the variant p
UrlsUnder(d, p) == IF p \in Keys(d) THEN Range(DictGet(d, p)) ELSE {}

\* C13: what scrape saves does not depend on the order in which the workers
\* end: under each variant the manifest has the URLs of the users the page of
\* the phenotype lists for that variant, each URL under the variant of its
\* user, and the failed users are the users whose page gave no URL.
C13_ResultIsOrderIndependent ==
    spc = "done" =>
        /\ \A p \in Variants :
               \A h \in UrlsUnder(manifestFile.data, p) :
                   \E r \in DOMAIN phenoPage.table :
                       /\ phenoPage.table[r][2] = p
                       /\ h \in UrlsOfUser(phenoPage.table[r][1])
        /\ \A r \in DOMAIN phenoPage.table :
               IF UrlsOfUser(phenoPage.table[r][1]) # {}
               THEN /\ UrlsOfUser(phenoPage.table[r][1])
                         \cap UrlsUnder(manifestFile.data, phenoPage.table[r][2]) # {}
                    /\ phenoPage.table[r][1] \notin Range(errFile.data)
               ELSE phenoPage.table[r][1] \in Range(errFile.data)
        /\ Range(errFile.data) \subseteq {phenoPage.table[r][1] : r \in DOMAIN phenoPage.table}

\* the workers ended in another order than the pairs were given, and scrape
\* has saved a manifest with a URL
C13_Witness ==
    /\ spc = "done"
    /\ manifestFile.data # <<>>
    /\ \E i \in DOMAIN order : \E j \in DOMAIN order : i < j /\ order[i] > order[j]

\* C15: get_file never raises, whatever the server answers for the page of
\* the user: it returns the user, the variant and the URL of a matching link
\* when the page has one, and the user, the variant and no URL otherwise.
C15_GetFileNeverRaises ==
    \A i \in DOMAIN gfResult :
        gfState[i] = "done" =>
            /\ gfResult[i].kind \in {"url", "none"}
            /\ gfResult[i].u = users_rev[i][1]
            /\ gfResult[i].p = users_rev[i][2]
            /\ IF UrlsOfUser(users_rev[i][1]) # {}
               THEN gfResult[i].kind = "url" /\ gfResult[i].f \in UrlsOfUser(users_rev[i][1])
               ELSE gfResult[i].kind = "none"

\* the walk has gone past position i, where a file of the naming convention was
Checked(i) == i \in 1..(vidx - 1) /\ NameMatches(walk[i].name)

\* the file met at position i is in quarantine and no more in its place
Quarantined(i) ==
    /\ OldPath(i) \notin DOMAIN tree
    /\ MoveBad(Bad, walk[i].path, walk[i].name) \in DOMAIN tree

\* the content of the file met at position i
ContentOf(i) ==
    IF OldPath(i) \in DOMAIN tree THEN tree[OldPath(i)]
    ELSE tree[MoveBad(Bad, walk[i].path, walk[i].name)]

\* '23andMe' in first: the signature is somewhere in the line
HasSignatureSomewhere(first) == \E w \in DOMAIN first : Contains(first[w], "23andMe")

\* C14: a file of the naming convention is moved to quarantine, and counted
\* once, exactly when reading it raises or its first line does not contain
\* '23andMe' as a substring; a file whose first line contains the signature
\* anywhere stays in its place and is not counted.
C14_QuarantineIffSignatureMissing ==
    /\ \A i \in DOMAIN walk :
           Checked(i) =>
               (Quarantined(i) <=> \/ ~ContentOf(i).readable
                                   \/ ~HasSignatureSomewhere(ContentOf(i).first))
    /\ err_count = Cardinality({i \in DOMAIN walk : Checked(i) /\ Quarantined(i)})

====
